--------------------------- MODULE Spec2Model ---------------------------
(***************************************************************************)
(* Simulation engine of the pulsed-ultrasound animation                    *)
(* (src/components/ultrasound-simulation.tsx, the component of lines       *)
(* 780-1652, and the timer handling of the variant src/unnamed/part_001).  *)
(*                                                                         *)
(* Numbers are fixed point:                                                *)
(*   lengths (x, y, radius, size)  1/20 pixel        (SC units per pixel)  *)
(*   arc parameter t               1/100000          (TS units = 1.0)      *)
(*   time, birthTime, hitTime      1/1000            (one frame = 16)      *)
(*   opacity                       1/10000                                 *)
(*   element activation            1/100                                   *)
(*   rotation                      1/1000000 radian                        *)
(*   Math.random()                 1/10000           (0 .. 9999)           *)
(* Divisions round towards minus infinity.  The canvas sizes of Scenes are *)
(* chosen so that the probe geometry (probeTop, probeBot, element height   *)
(* and the arrival tolerance) is exact in these units.                     *)
(***************************************************************************)
EXTENDS Integers, Naturals, Sequences, FiniteSets, TLC

SC == 2 * 10
TS == 100 * 1000
DT == 16

\* Bounds of the model (not of the program).
MaxFrames == 595
MaxFramesWide == 945
MaxWait == 2
MaxResizes == 1
MaxPending == 2

Max(a, b) == IF a >= b THEN a ELSE b
Min(a, b) == IF a <= b THEN a ELSE b
Abs(a) == IF a >= 0 THEN a ELSE 0 - a
Pt(px, py) == [x |-> px, y |-> py]
Indices(s) == [i \in 1..Len(s) |-> i]

---------------------------------------------------------------------------
\* Constants of src/components/ultrasound-simulation.tsx, lines 813-822.
WAVE_SPEED == (26 * SC) \div 10
ECHO_SPEED == 2 * SC
PROBE_TOP_FRAC == 8
PROBE_BOT_FRAC == 92
PROBE_FACE_X == 60 * SC
NUM_ELEMENTS == 32
RESTART_DELAY == 1800

\* Literals of animate.
PULSE_MARGIN == 20 * SC
ECHO_OPACITY0 == 9000
ECHO_PRUNE == 100
ECHO_VISIBLE == 500
FACE_WINDOW == 4 * SC
ELEMENT_GAP == (25 * SC) \div 10
ACT_DECAY == 2
ACT_STEP == 40
ACT_CAP == 100

Elements == 0..(NUM_ELEMENTS - 1)

lerp(a, b, num) == a + ((b - a) * num) \div TS

\* getVesselPoint, lines 829-834: the index of the segment used for t.
SegmentIndex(vessel, t) ==
  Min((t * (Len(vessel.points) - 1)) \div TS, (Len(vessel.points) - 1) - 1)

\* An interpolation that forgets to subtract the segment index from t * total.
getVesselPoint_RawFrac(vessel, t) ==
  LET pts == vessel.points
      total == Len(pts) - 1
      idx == Min((t * total) \div TS, total - 1)
      frac == t * total
      p0 == pts[idx + 1]
      p1 == pts[Min(idx + 1, Len(pts) - 1) + 1]
  IN  [x |-> p0.x + ((p1.x - p0.x) * frac) \div TS,
       y |-> p0.y + ((p1.y - p0.y) * frac) \div TS]

getVesselPoint(vessel, t) ==
  LET pts == vessel.points
      total == Len(pts) - 1
      idx == Min((t * total) \div TS, total - 1)
      frac == t * total - idx * TS
      p0 == pts[idx + 1]
      p1 == pts[Min(idx + 1, Len(pts) - 1) + 1]
  IN  [x |-> lerp(p0.x, p1.x, frac), y |-> lerp(p0.y, p1.y, frac)]

ProbeTop(h) == (h * PROBE_TOP_FRAC) \div 100
ProbeBot(h) == (h * PROBE_BOT_FRAC) \div 100
ElementH(h) ==
  ((ProbeBot(h) - ProbeTop(h)) - (NUM_ELEMENTS - 1) * ELEMENT_GAP) \div NUM_ELEMENTS
ECenterY(h, i) ==
  ProbeTop(h) + i * (ElementH(h) + ELEMENT_GAP) + ElementH(h) \div 2
Tolerance(h) == (ElementH(h) * 8) \div 10

\* buildRBCs: the cells in the order the code pushes them.  rnd is the
\* sequence of the values Math.random() returns during the call, k the number
\* of values consumed before the cell.
SoloRBC(rnd, k, vi, i, nSolo, isLabeled) ==
  [vesselIdx |-> vi,
   t |-> (4 * TS) \div 10 + (i * ((4 * TS) \div 10)) \div Max(1, nSolo)
           + (rnd[k + 1] * TS) \div 100000,
   size |-> 3 * SC + (rnd[k + 2] * 25 * SC) \div 100000,
   rotation |-> (rnd[k + 3] * 6283) \div 10,
   rotSpeed |-> (rnd[k + 4] - 5000) * 2,
   hit |-> FALSE,
   hitTime |-> 0,
   labeled |-> isLabeled,
   clumpId |-> 0 - 1,
   clumpOffset |-> 0]

ClumpCenter(rnd, k) == (55 * TS) \div 100 + (rnd[k + 1] * 3 * (TS \div 1000)) \div 100

\* offset = (j - (clumpSize - 1) / 2) * 0.012
ClumpRBC(rnd, k, vi, j, clumpSize, center, cid) ==
  LET offset == ((2 * j - (clumpSize - 1)) * 6 * TS) \div 1000
  IN  [vesselIdx |-> vi,
       t |-> center + offset,
       size |-> 3 * SC + (rnd[k + 1] * 2 * SC) \div 10000,
       rotation |-> (rnd[k + 2] * 6283) \div 10,
       rotSpeed |-> ((rnd[k + 3] - 5000) * 3) \div 2,
       hit |-> FALSE,
       hitTime |-> 0,
       labeled |-> FALSE,
       clumpId |-> cid,
       clumpOffset |-> offset]

buildRBCs(rnd) ==
  << SoloRBC(rnd, 0, 0, 0, 1, TRUE),
     ClumpRBC(rnd, 5, 0, 0, 2, ClumpCenter(rnd, 4), 0),
     ClumpRBC(rnd, 8, 0, 1, 2, ClumpCenter(rnd, 4), 0),
     SoloRBC(rnd, 11, 1, 0, 1, FALSE),
     ClumpRBC(rnd, 16, 1, 0, 3, ClumpCenter(rnd, 15), 1),
     ClumpRBC(rnd, 19, 1, 1, 3, ClumpCenter(rnd, 15), 1),
     ClumpRBC(rnd, 22, 1, 2, 3, ClumpCenter(rnd, 15), 1),
     SoloRBC(rnd, 25, 2, 0, 2, FALSE),
     SoloRBC(rnd, 29, 2, 1, 2, FALSE),
     SoloRBC(rnd, 33, 3, 0, 1, FALSE),
     ClumpRBC(rnd, 38, 3, 0, 2, ClumpCenter(rnd, 37), 2),
     ClumpRBC(rnd, 41, 3, 1, 2, ClumpCenter(rnd, 37), 2),
     SoloRBC(rnd, 44, 4, 0, 1, FALSE) >>

---------------------------------------------------------------------------
\* buildVessels(w, h), lines 872-955, evaluated for the canvas sizes of Scenes
\* (the sines and cosines are tabulated; a point is rounded to the nearest
\* unit).
VesselsA ==
  << [points |-> <<
          Pt(-1600, 5640), Pt(-1486, 5749), Pt(-1372, 5850), Pt(-1258, 5941), Pt(-1144, 6017),
          Pt(-1030, 6077), Pt(-916, 6117), Pt(-802, 6135), Pt(-688, 6131), Pt(-574, 6103),
          Pt(-460, 6053), Pt(-346, 5982), Pt(-232, 5890), Pt(-118, 5781), Pt(-4, 5658),
          Pt(110, 5524), Pt(224, 5383), Pt(338, 5240), Pt(452, 5097), Pt(566, 4960),
          Pt(680, 4833), Pt(794, 4719), Pt(908, 4622), Pt(1022, 4543), Pt(1136, 4486),
          Pt(1250, 4451), Pt(1364, 4439), Pt(1478, 4450), Pt(1592, 4483), Pt(1706, 4536),
          Pt(1820, 4607), Pt(1934, 4693), Pt(2048, 4792), Pt(2162, 4898), Pt(2276, 5009),
          Pt(2390, 5121), Pt(2504, 5229), Pt(2618, 5330), Pt(2732, 5421), Pt(2846, 5499),
          Pt(2960, 5561), Pt(3074, 5606), Pt(3188, 5633), Pt(3302, 5640), Pt(3416, 5630),
          Pt(3530, 5603), Pt(3644, 5560), Pt(3758, 5504), Pt(3872, 5438), Pt(3986, 5364),
          Pt(4100, 5288)
        >>, radius |-> 470, flowSpeed |-> 30],
     [points |-> <<
          Pt(-1600, 2923), Pt(-1473, 3078), Pt(-1347, 3214), Pt(-1220, 3324), Pt(-1093, 3400),
          Pt(-967, 3438), Pt(-840, 3439), Pt(-713, 3402), Pt(-587, 3334), Pt(-460, 3241),
          Pt(-333, 3131), Pt(-207, 3013), Pt(-80, 2894), Pt(47, 2782), Pt(173, 2682),
          Pt(300, 2595), Pt(427, 2523), Pt(553, 2463), Pt(680, 2411), Pt(807, 2365),
          Pt(933, 2318), Pt(1060, 2267), Pt(1187, 2210), Pt(1313, 2147), Pt(1440, 2078),
          Pt(1567, 2007), Pt(1693, 1941), Pt(1820, 1885), Pt(1947, 1848), Pt(2073, 1835),
          Pt(2200, 1852), Pt(2327, 1903), Pt(2453, 1988), Pt(2580, 2104), Pt(2707, 2247),
          Pt(2833, 2410), Pt(2960, 2583), Pt(3087, 2756), Pt(3213, 2919), Pt(3340, 3063),
          Pt(3467, 3179), Pt(3593, 3264), Pt(3720, 3315), Pt(3847, 3333), Pt(3973, 3321),
          Pt(4100, 3284)
        >>, radius |-> 294, flowSpeed |-> 18],
     [points |-> <<
          Pt(-1600, 9213), Pt(-1473, 9258), Pt(-1347, 9270), Pt(-1220, 9248), Pt(-1093, 9196),
          Pt(-967, 9117), Pt(-840, 9018), Pt(-713, 8905), Pt(-587, 8784), Pt(-460, 8663),
          Pt(-333, 8546), Pt(-207, 8438), Pt(-80, 8344), Pt(47, 8266), Pt(173, 8205),
          Pt(300, 8160), Pt(427, 8131), Pt(553, 8117), Pt(680, 8115), Pt(807, 8124),
          Pt(933, 8142), Pt(1060, 8169), Pt(1187, 8203), Pt(1313, 8244), Pt(1440, 8293),
          Pt(1567, 8351), Pt(1693, 8417), Pt(1820, 8492), Pt(1947, 8574), Pt(2073, 8664),
          Pt(2200, 8759), Pt(2327, 8855), Pt(2453, 8949), Pt(2580, 9035), Pt(2707, 9109),
          Pt(2833, 9165), Pt(2960, 9199), Pt(3087, 9206), Pt(3213, 9185), Pt(3340, 9134),
          Pt(3467, 9053), Pt(3593, 8946), Pt(3720, 8817), Pt(3847, 8672), Pt(3973, 8518),
          Pt(4100, 8364)
        >>, radius |-> 329, flowSpeed |-> 22],
     [points |-> <<
          Pt(-425, 5875), Pt(-315, 5827), Pt(-205, 5766), Pt(-95, 5680), Pt(15, 5562),
          Pt(125, 5406), Pt(235, 5214), Pt(345, 4990), Pt(455, 4745), Pt(565, 4489),
          Pt(675, 4237), Pt(785, 4001), Pt(895, 3792), Pt(1005, 3618), Pt(1115, 3481),
          Pt(1225, 3379), Pt(1335, 3307), Pt(1445, 3254), Pt(1555, 3208), Pt(1665, 3155),
          Pt(1775, 3083), Pt(1885, 2982), Pt(1995, 2845), Pt(2105, 2670), Pt(2215, 2462),
          Pt(2325, 2226), Pt(2435, 1973), Pt(2545, 1718), Pt(2655, 1472), Pt(2765, 1249),
          Pt(2875, 1056), Pt(2985, 901), Pt(3095, 782), Pt(3205, 696), Pt(3315, 635),
          Pt(3425, 587)
        >>, radius |-> 176, flowSpeed |-> 12],
     [points |-> <<
          Pt(-300, 5937), Pt(-194, 6118), Pt(-87, 6274), Pt(19, 6406), Pt(126, 6512),
          Pt(232, 6597), Pt(339, 6663), Pt(445, 6716), Pt(551, 6764), Pt(658, 6811),
          Pt(764, 6865), Pt(871, 6933), Pt(977, 7020), Pt(1084, 7128), Pt(1190, 7262),
          Pt(1296, 7421), Pt(1403, 7604), Pt(1509, 7808), Pt(1616, 8029), Pt(1722, 8260),
          Pt(1829, 8496), Pt(1935, 8729), Pt(2041, 8953), Pt(2148, 9161), Pt(2254, 9350),
          Pt(2361, 9515), Pt(2467, 9655), Pt(2574, 9769), Pt(2680, 9861), Pt(2786, 9933),
          Pt(2893, 9990), Pt(2999, 10038), Pt(3106, 10085), Pt(3212, 10136), Pt(3319, 10199),
          Pt(3425, 10278)
        >>, radius |-> 188, flowSpeed |-> 15] >>

VesselsB ==
  << [points |-> <<
          Pt(-1600, 768), Pt(-1470, 783), Pt(-1340, 797), Pt(-1210, 809), Pt(-1080, 819),
          Pt(-950, 827), Pt(-820, 833), Pt(-690, 835), Pt(-560, 835), Pt(-430, 831),
          Pt(-300, 824), Pt(-170, 815), Pt(-40, 802), Pt(90, 787), Pt(220, 770), Pt(350, 752),
          Pt(480, 733), Pt(610, 713), Pt(740, 694), Pt(870, 675), Pt(1000, 658),
          Pt(1130, 643), Pt(1260, 629), Pt(1390, 619), Pt(1520, 611), Pt(1650, 606),
          Pt(1780, 604), Pt(1910, 606), Pt(2040, 610), Pt(2170, 618), Pt(2300, 627),
          Pt(2430, 639), Pt(2560, 652), Pt(2690, 667), Pt(2820, 682), Pt(2950, 697),
          Pt(3080, 712), Pt(3210, 726), Pt(3340, 738), Pt(3470, 749), Pt(3600, 757),
          Pt(3730, 763), Pt(3860, 767), Pt(3990, 768), Pt(4120, 767), Pt(4250, 763),
          Pt(4380, 757), Pt(4510, 749), Pt(4640, 740), Pt(4770, 730), Pt(4900, 720)
        >>, radius |-> 64, flowSpeed |-> 30],
     [points |-> <<
          Pt(-1600, 398), Pt(-1456, 419), Pt(-1311, 438), Pt(-1167, 453), Pt(-1022, 463),
          Pt(-878, 468), Pt(-733, 468), Pt(-589, 463), Pt(-444, 454), Pt(-300, 441),
          Pt(-156, 426), Pt(-11, 410), Pt(133, 394), Pt(278, 379), Pt(422, 365), Pt(567, 353),
          Pt(711, 344), Pt(856, 335), Pt(1000, 328), Pt(1144, 322), Pt(1289, 316),
          Pt(1433, 309), Pt(1578, 301), Pt(1722, 292), Pt(1867, 283), Pt(2011, 273),
          Pt(2156, 264), Pt(2300, 257), Pt(2444, 252), Pt(2589, 250), Pt(2733, 252),
          Pt(2878, 259), Pt(3022, 271), Pt(3167, 287), Pt(3311, 306), Pt(3456, 328),
          Pt(3600, 352), Pt(3744, 375), Pt(3889, 397), Pt(4033, 417), Pt(4178, 433),
          Pt(4322, 445), Pt(4467, 451), Pt(4611, 454), Pt(4756, 452), Pt(4900, 447)
        >>, radius |-> 40, flowSpeed |-> 18],
     [points |-> <<
          Pt(-1600, 1255), Pt(-1456, 1261), Pt(-1311, 1262), Pt(-1167, 1259), Pt(-1022, 1252),
          Pt(-878, 1241), Pt(-733, 1228), Pt(-589, 1213), Pt(-444, 1196), Pt(-300, 1180),
          Pt(-156, 1164), Pt(-11, 1149), Pt(133, 1136), Pt(278, 1126), Pt(422, 1117),
          Pt(567, 1111), Pt(711, 1107), Pt(856, 1105), Pt(1000, 1105), Pt(1144, 1106),
          Pt(1289, 1109), Pt(1433, 1112), Pt(1578, 1117), Pt(1722, 1123), Pt(1867, 1129),
          Pt(2011, 1137), Pt(2156, 1146), Pt(2300, 1156), Pt(2444, 1168), Pt(2589, 1180),
          Pt(2733, 1193), Pt(2878, 1206), Pt(3022, 1219), Pt(3167, 1230), Pt(3311, 1240),
          Pt(3456, 1248), Pt(3600, 1253), Pt(3744, 1254), Pt(3889, 1251), Pt(4033, 1244),
          Pt(4178, 1233), Pt(4322, 1218), Pt(4467, 1201), Pt(4611, 1181), Pt(4756, 1160),
          Pt(4900, 1139)
        >>, radius |-> 45, flowSpeed |-> 22],
     [points |-> <<
          Pt(-305, 800), Pt(-174, 793), Pt(-44, 785), Pt(87, 774), Pt(217, 757), Pt(348, 736),
          Pt(478, 710), Pt(609, 680), Pt(740, 646), Pt(870, 611), Pt(1001, 577),
          Pt(1131, 545), Pt(1262, 516), Pt(1392, 493), Pt(1523, 474), Pt(1654, 460),
          Pt(1784, 450), Pt(1915, 443), Pt(2045, 437), Pt(2176, 430), Pt(2306, 420),
          Pt(2437, 406), Pt(2568, 387), Pt(2698, 364), Pt(2829, 335), Pt(2959, 303),
          Pt(3090, 269), Pt(3220, 234), Pt(3351, 200), Pt(3482, 170), Pt(3612, 144),
          Pt(3743, 123), Pt(3873, 106), Pt(4004, 95), Pt(4134, 87), Pt(4265, 80)
        >>, radius |-> 24, flowSpeed |-> 12],
     [points |-> <<
          Pt(-140, 808), Pt(-14, 833), Pt(112, 854), Pt(238, 872), Pt(363, 887), Pt(489, 898),
          Pt(615, 907), Pt(741, 915), Pt(867, 921), Pt(993, 927), Pt(1119, 935),
          Pt(1244, 944), Pt(1370, 956), Pt(1496, 971), Pt(1622, 989), Pt(1748, 1011),
          Pt(1874, 1035), Pt(2000, 1063), Pt(2125, 1093), Pt(2251, 1125), Pt(2377, 1157),
          Pt(2503, 1189), Pt(2629, 1219), Pt(2755, 1248), Pt(2881, 1273), Pt(3006, 1296),
          Pt(3132, 1315), Pt(3258, 1330), Pt(3384, 1343), Pt(3510, 1353), Pt(3636, 1360),
          Pt(3762, 1367), Pt(3887, 1373), Pt(4013, 1380), Pt(4139, 1389), Pt(4265, 1400)
        >>, radius |-> 26, flowSpeed |-> 15] >>

VesselsC ==
  << [points |-> <<
          Pt(-1600, 5640), Pt(-1056, 5749), Pt(-512, 5850), Pt(32, 5941), Pt(576, 6017),
          Pt(1120, 6077), Pt(1664, 6117), Pt(2208, 6135), Pt(2752, 6131), Pt(3296, 6103),
          Pt(3840, 6053), Pt(4384, 5982), Pt(4928, 5890), Pt(5472, 5781), Pt(6016, 5658),
          Pt(6560, 5524), Pt(7104, 5383), Pt(7648, 5240), Pt(8192, 5097), Pt(8736, 4960),
          Pt(9280, 4833), Pt(9824, 4719), Pt(10368, 4622), Pt(10912, 4543), Pt(11456, 4486),
          Pt(12000, 4451), Pt(12544, 4439), Pt(13088, 4450), Pt(13632, 4483), Pt(14176, 4536),
          Pt(14720, 4607), Pt(15264, 4693), Pt(15808, 4792), Pt(16352, 4898), Pt(16896, 5009),
          Pt(17440, 5121), Pt(17984, 5229), Pt(18528, 5330), Pt(19072, 5421), Pt(19616, 5499),
          Pt(20160, 5561), Pt(20704, 5606), Pt(21248, 5633), Pt(21792, 5640), Pt(22336, 5630),
          Pt(22880, 5603), Pt(23424, 5560), Pt(23968, 5504), Pt(24512, 5438), Pt(25056, 5364),
          Pt(25600, 5288)
        >>, radius |-> 470, flowSpeed |-> 30],
     [points |-> <<
          Pt(-1600, 2923), Pt(-996, 3078), Pt(-391, 3214), Pt(213, 3324), Pt(818, 3400),
          Pt(1422, 3438), Pt(2027, 3439), Pt(2631, 3402), Pt(3236, 3334), Pt(3840, 3241),
          Pt(4444, 3131), Pt(5049, 3013), Pt(5653, 2894), Pt(6258, 2782), Pt(6862, 2682),
          Pt(7467, 2595), Pt(8071, 2523), Pt(8676, 2463), Pt(9280, 2411), Pt(9884, 2365),
          Pt(10489, 2318), Pt(11093, 2267), Pt(11698, 2210), Pt(12302, 2147), Pt(12907, 2078),
          Pt(13511, 2007), Pt(14116, 1941), Pt(14720, 1885), Pt(15324, 1848), Pt(15929, 1835),
          Pt(16533, 1852), Pt(17138, 1903), Pt(17742, 1988), Pt(18347, 2104), Pt(18951, 2247),
          Pt(19556, 2410), Pt(20160, 2583), Pt(20764, 2756), Pt(21369, 2919), Pt(21973, 3063),
          Pt(22578, 3179), Pt(23182, 3264), Pt(23787, 3315), Pt(24391, 3333), Pt(24996, 3321),
          Pt(25600, 3284)
        >>, radius |-> 294, flowSpeed |-> 18],
     [points |-> <<
          Pt(-1600, 9213), Pt(-996, 9258), Pt(-391, 9270), Pt(213, 9248), Pt(818, 9196),
          Pt(1422, 9117), Pt(2027, 9018), Pt(2631, 8905), Pt(3236, 8784), Pt(3840, 8663),
          Pt(4444, 8546), Pt(5049, 8438), Pt(5653, 8344), Pt(6258, 8266), Pt(6862, 8205),
          Pt(7467, 8160), Pt(8071, 8131), Pt(8676, 8117), Pt(9280, 8115), Pt(9884, 8124),
          Pt(10489, 8142), Pt(11093, 8169), Pt(11698, 8203), Pt(12302, 8244), Pt(12907, 8293),
          Pt(13511, 8351), Pt(14116, 8417), Pt(14720, 8492), Pt(15324, 8574), Pt(15929, 8664),
          Pt(16533, 8759), Pt(17138, 8855), Pt(17742, 8949), Pt(18347, 9035), Pt(18951, 9109),
          Pt(19556, 9165), Pt(20160, 9199), Pt(20764, 9206), Pt(21369, 9185), Pt(21973, 9134),
          Pt(22578, 9053), Pt(23182, 8946), Pt(23787, 8817), Pt(24391, 8672), Pt(24996, 8518),
          Pt(25600, 8364)
        >>, radius |-> 329, flowSpeed |-> 22],
     [points |-> <<
          Pt(2800, 5875), Pt(3463, 5827), Pt(4126, 5766), Pt(4789, 5680), Pt(5451, 5562),
          Pt(6114, 5406), Pt(6777, 5214), Pt(7440, 4990), Pt(8103, 4745), Pt(8766, 4489),
          Pt(9429, 4237), Pt(10091, 4001), Pt(10754, 3792), Pt(11417, 3618), Pt(12080, 3481),
          Pt(12743, 3379), Pt(13406, 3307), Pt(14069, 3254), Pt(14731, 3208), Pt(15394, 3155),
          Pt(16057, 3083), Pt(16720, 2982), Pt(17383, 2845), Pt(18046, 2670), Pt(18709, 2462),
          Pt(19371, 2226), Pt(20034, 1973), Pt(20697, 1718), Pt(21360, 1472), Pt(22023, 1249),
          Pt(22686, 1056), Pt(23349, 901), Pt(24011, 782), Pt(24674, 696), Pt(25337, 635),
          Pt(26000, 587)
        >>, radius |-> 176, flowSpeed |-> 12],
     [points |-> <<
          Pt(4000, 5937), Pt(4629, 6118), Pt(5257, 6274), Pt(5886, 6406), Pt(6514, 6512),
          Pt(7143, 6597), Pt(7771, 6663), Pt(8400, 6716), Pt(9029, 6764), Pt(9657, 6811),
          Pt(10286, 6865), Pt(10914, 6933), Pt(11543, 7020), Pt(12171, 7128), Pt(12800, 7262),
          Pt(13429, 7421), Pt(14057, 7604), Pt(14686, 7808), Pt(15314, 8029), Pt(15943, 8260),
          Pt(16571, 8496), Pt(17200, 8729), Pt(17829, 8953), Pt(18457, 9161), Pt(19086, 9350),
          Pt(19714, 9515), Pt(20343, 9655), Pt(20971, 9769), Pt(21600, 9861), Pt(22229, 9933),
          Pt(22857, 9990), Pt(23486, 10038), Pt(24114, 10085), Pt(24743, 10136),
          Pt(25371, 10199), Pt(26000, 10278)
        >>, radius |-> 188, flowSpeed |-> 15] >>

\* A build that leaves out the descending arteriole, the fifth vessel.
buildVessels_NoDescending(w, h) ==
  SubSeq(CASE w = 2500 /\ h = 11750 -> VesselsA
           [] w = 3300 /\ h = 1600 -> VesselsB
           [] w = 24000 /\ h = 11750 -> VesselsC, 1, 4)

buildVessels(w, h) ==
  CASE w = 2500 /\ h = 11750 -> VesselsA
    [] w = 3300 /\ h = 1600 -> VesselsB
    [] w = 24000 /\ h = 11750 -> VesselsC

\* The values Math.random() returns during one call of buildRBCs.
RandomA ==
  << 2500, 4000, 1234, 7000, 4860, 2000, 2000, 3000, 2500, 8000, 6500, 1000,
     9000, 4321, 2000, 8000, 1000, 100, 5000, 6000, 7000, 4000, 3000, 9000,
     8000, 3000, 2000, 5555, 5000, 9990, 6000, 3141, 1000, 500, 7000, 2718,
     9000, 9000, 2000, 1000, 3000, 8000, 5000, 7500, 100, 3000, 8888, 4000 >>

RandomB ==
  << 7310, 1000, 4000, 2500, 2000, 9000, 3000, 6000, 1500, 7000, 4500, 9000,
     5000, 1111, 8000, 5000, 3000, 2222, 1000, 7000, 6000, 9500, 4000, 3333,
     500, 6000, 8000, 4444, 7000, 2000, 1000, 5555, 3000, 8000, 2500, 6666,
     6000, 1000, 5000, 7777, 2000, 6500, 8888, 9000, 3000, 4500, 9999, 500 >>

\* What a resize can find: the canvas rectangle (125 x 587.5 and 165 x 80
\* pixels) and the random numbers.
Scenes ==
  { [w |-> 2500, h |-> 11750, rnd |-> RandomA],
    [w |-> 3300, h |-> 1600, rnd |-> RandomB] }

RandomC ==
  << 2500, 4000, 1234, 7000, 7000, 2000, 2000, 3000, 2500, 8000, 6500, 1000,
     9000, 4321, 2000, 8000, 1000, 100, 5000, 6000, 7000, 4000, 3000, 9000,
     8000, 3000, 2000, 5555, 5000, 9990, 6000, 3141, 1000, 500, 7000, 2718,
     9000, 9000, 2000, 1000, 3000, 8000, 5000, 7500, 100, 3000, 8888, 4000 >>

\* A canvas 1200 pixels wide (and 587.5 high), on which an echo reaches the
\* probe face only when it has nearly faded.
WideScene == [w |-> 24000, h |-> 11750, rnd |-> RandomC]

\* The same canvas with the clump of vessel 0 so far downstream that the
\* pulse never catches it inside the canvas; it wraps to the vessel's start
\* and re-enters the canvas after the pulse has left.
RandomD == [RandomC EXCEPT ![5] = 9000]

LateScene == [w |-> 24000, h |-> 11750, rnd |-> RandomD]

\* The frames the model delivers after a scene is built.
FrameBudget(w) == IF w = WideScene.w THEN MaxFramesWide ELSE MaxFrames

---------------------------------------------------------------------------
\* One-vessel, one-cell scenes, to exercise the move step, getVesselPoint
\* and the collision test on inputs chosen freely: a vessel with the given
\* control points and per-frame flow increment, and a cell at t0 on it.
FlowVessel(pts, flow) == [points |-> pts, radius |-> 2 * SC, flowSpeed |-> flow]

FlowCell(t0, size) ==
  [vesselIdx |-> 0, t |-> t0, size |-> size, rotation |-> 0, rotSpeed |-> 0,
   hit |-> FALSE, hitTime |-> 0, labeled |-> TRUE, clumpId |-> 0 - 1, clumpOffset |-> 0]

\* The path (0,50)-(100,50) and the same path 60 pixels to the right, so
\* that its middle is 50 pixels in front of the probe face.
PathAtOrigin == << Pt(0, 50 * SC), Pt(100 * SC, 50 * SC) >>
PathAtFace == << Pt(60 * SC, 50 * SC), Pt(160 * SC, 50 * SC) >>

\* A path of three control points that turns back in x and climbs in y.
PathBent == << Pt(150 * SC, 20 * SC), Pt(70 * SC, 40 * SC), Pt(120 * SC, 80 * SC) >>

FlowPaths == {PathAtOrigin, PathAtFace, PathBent}

\* Per-frame increments of t: none, the five of buildVessels, and large ones
\* whose period is a whole number of frames.
FlowRates == {0, 12, 15, 18, 22, 30, TS \div 8, TS \div 4, TS \div 2}

FlowStarts == {0, TS \div 10, TS \div 2, (3 * TS) \div 4, TS - 1}

\* The canvas of the one-vessel scenes, 160 x 100 pixels.
FlowDims == [w |-> 160 * SC, h |-> 100 * SC]

---------------------------------------------------------------------------
VARIABLES
  vessels,             \* stateRef.current.vessels
  rbcs,                \* stateRef.current.rbcs
  echoes,              \* stateRef.current.echoes
  pulse,               \* stateRef.current.pulse
  time,                \* stateRef.current.time
  initialized,         \* stateRef.current.initialized
  dims,                \* stateRef.current.dims
  restartTimer,        \* stateRef.current.restartTimer (0 is null)
  elementActivations,  \* stateRef.current.elementActivations
  timers,              \* host: handles of the setTimeout callbacks still pending
  rafPending,          \* host: a requestAnimationFrame callback is scheduled
  listening,           \* host: the resize listener is registered
  disposed,            \* history: the effect cleanup has run
  lastOp,              \* history: the handler that ran last
  wasSettled,          \* history: SETTLED held when the last handler started
  waited,              \* history: frames delivered since a timer became pending
  resizes,             \* history: resize events delivered
  arrayIds,            \* history: which array objects s.vessels and s.rbcs refer to
  startT,              \* history: each cell's t when the cell array was built
  echoLog              \* history: per live echo, its registrations per element

vars ==
  << vessels, rbcs, echoes, pulse, time, initialized, dims, restartTimer,
     elementActivations, timers, rafPending, listening, disposed, lastOp,
     wasSettled, waited, resizes, arrayIds, startT, echoLog >>

simState == << vessels, rbcs, echoes, pulse, time, dims, elementActivations >>

Settled == ~pulse.active /\ echoes = << >>

---------------------------------------------------------------------------
(***************************************************************************)
(* Faulty variants of the operations, used to show that the properties     *)
(* below distinguish the code from a near miss.                            *)
(***************************************************************************)
\* An echo born with the cell's radius, without the one-pixel margin.
SpawnEcho_NoMargin(rbc, pos, now) ==
  [cx |-> pos.x, cy |-> pos.y, radius |-> rbc.size, opacity |-> ECHO_OPACITY0,
   birthTime |-> now]

\* A pulse re-armed one step in front of the probe face.
FreshPulse_Advanced == [x |-> PROBE_FACE_X + WAVE_SPEED, opacity |-> 1, active |-> TRUE]

\* An auto-restart tested while the pulse is still travelling.
ShouldSchedule_WhileActive(p, es, timer) == p.active /\ es = << >> /\ timer = 0

\* An arrival test that measures to the top edge of the element, not its centre.
ElementInRing_TopEdge(e, i, h) ==
  LET dx == e.cx - PROBE_FACE_X
      dy == e.cy - (ProbeTop(h) + i * (ElementH(h) + ELEMENT_GAP))
      d2 == dx * dx + dy * dy
      tol == Tolerance(h)
      lo == e.radius - tol
      hi == e.radius + tol
  IN  /\ tol > 0
      /\ d2 < hi * hi
      /\ (lo < 0 \/ d2 > lo * lo)

\* An activation update that forgets the cap.
Activate_NoCap(a, n) == Max(0, a - ACT_DECAY) + ACT_STEP * n

\* An activation decay that forgets the floor at zero.
Activate_NoFloor(a, n) == Min(ACT_CAP, (a - ACT_DECAY) + ACT_STEP * n)

\* An arrival gate that only looks at the wavefront crossing the face.
EchoAtFace_GateOnly(e) == ~(Abs(e.radius - Abs(e.cx - PROBE_FACE_X)) > FACE_WINDOW)

\* A collision test that only asks whether the wavefront reached the cell.
PulseHits_ReachedOnly(rbc, pos, pulseX, w, h) == pulseX >= pos.x - rbc.size

\* An echo update with the sign of the fading reversed.
TickEcho_Brightening(e, now) ==
  [e EXCEPT !.radius = e.radius + ECHO_SPEED,
            !.opacity = ECHO_OPACITY0 + (now - e.birthTime)]

\* A filter with threshold 0 instead of 0.01.
KeepEcho_UntilZero(e) == e.opacity > 0

\* A pulse update that tests the edge before advancing.
AdvancePulse_TestFirst(p, w) ==
  IF p.active
    THEN [p EXCEPT !.x = p.x + WAVE_SPEED, !.active = ~(p.x > w + PULSE_MARGIN)]
    ELSE p

\* A pulse update that keeps moving an inactive pulse.
AdvancePulse_Always(p, w) ==
  [p EXCEPT !.x = p.x + WAVE_SPEED,
            !.active = p.active /\ ~(p.x + WAVE_SPEED > w + PULSE_MARGIN)]

\* A collision test made before the pulse advances.
PulseHits_BeforeAdvance(rbc, pos, pulseX, w, h) ==
  /\ pos.x >= 0 /\ pos.x <= w /\ pos.y >= 0 /\ pos.y <= h
  /\ pos.y >= ProbeTop(h) /\ pos.y <= ProbeBot(h)
  /\ pulseX - WAVE_SPEED >= pos.x - rbc.size

\* A collision test that waits for the front to reach the cell's centre.
PulseHits_AtCentre(rbc, pos, pulseX, w, h) ==
  /\ pos.x >= 0 /\ pos.x <= w /\ pos.y >= 0 /\ pos.y <= h
  /\ pos.y >= ProbeTop(h) /\ pos.y <= ProbeBot(h)
  /\ pulseX >= pos.x

\* An echo update that lets the origin drift downstream.
TickEcho_Drifting(e, now) ==
  [e EXCEPT !.cx = e.cx + 1,
            !.radius = e.radius + ECHO_SPEED,
            !.opacity = Max(0, ECHO_OPACITY0 - (now - e.birthTime))]

\* A collision test that only takes cells the front has just reached.
PulseHits_FrontOnly(rbc, pos, pulseX, w, h) ==
  /\ pos.x >= 0 /\ pos.x <= w /\ pos.y >= 0 /\ pos.y <= h
  /\ pos.y >= ProbeTop(h) /\ pos.y <= ProbeBot(h)
  /\ pulseX >= pos.x - rbc.size
  /\ pulseX - WAVE_SPEED < pos.x - rbc.size

\* An echo pushed after the echo update, so that it is not grown in the
\* frame that spawns it (its seed radius is one step short).
SpawnEcho_AfterTick(rbc, pos, now) ==
  [cx |-> pos.x, cy |-> pos.y, radius |-> rbc.size + SC - ECHO_SPEED,
   opacity |-> ECHO_OPACITY0, birthTime |-> now]

\* A pulse update that sends the front back to the probe face when it
\* leaves the canvas, instead of switching it off.
AdvancePulse_WrapAround(p, w) ==
  IF p.active
    THEN [p EXCEPT !.x = IF p.x + WAVE_SPEED > w + PULSE_MARGIN
                           THEN PROBE_FACE_X ELSE p.x + WAVE_SPEED]
    ELSE p

\* A filter that never drops an echo.
KeepEcho_All(e) == e.opacity >= 0

---------------------------------------------------------------------------
FreshPulse == [x |-> PROBE_FACE_X, opacity |-> 1, active |-> TRUE]

ZeroActivations == [i \in Elements |-> 0]

\* resize, lines 1027-1028: s.vessels and s.rbcs are assigned freshly built
\* arrays.  Array objects are numbered in the order of their creation.
NewArrays(ids) == [vessels |-> ids.vessels + 1, rbcs |-> ids.rbcs + 1]

NoLog ==
  [cnt |-> [i \in Elements |-> 0], first |-> [i \in Elements |-> 0],
   dimmest |-> [i \in Elements |-> ECHO_OPACITY0]]

\* window.setTimeout: a handle that no pending timer has.
NewHandle == CHOOSE n \in 1..(Cardinality(timers) + 1) : n \notin timers

---------------------------------------------------------------------------
\* animate, lines 1072-1078: move the cells along their vessels.
Wrap(t) == IF t > TS THEN t - TS ELSE t

MoveRBC(rbc) ==
  [rbc EXCEPT !.t = Wrap(rbc.t + vessels[rbc.vesselIdx + 1].flowSpeed),
              !.rotation = rbc.rotation + rbc.rotSpeed]

\* animate, lines 1087-1092: the collision test of one cell that is not hit.
PulseHits(rbc, pos, pulseX, w, h) ==
  LET inCanvas == pos.x >= 0 /\ pos.x <= w /\ pos.y >= 0 /\ pos.y <= h
      inBeam == pos.y >= ProbeTop(h) /\ pos.y <= ProbeBot(h)
      pulseReached == pulseX >= pos.x - rbc.size
  IN  inCanvas /\ inBeam /\ pulseReached

\* animate, lines 1095-1101: the echo pushed for a cell that is hit.
SpawnEcho(rbc, pos, now) ==
  [cx |-> pos.x, cy |-> pos.y, radius |-> rbc.size + SC, opacity |-> ECHO_OPACITY0,
   birthTime |-> now]

\* animate, lines 1111-1114: growth and fading of one echo.
TickEcho(e, now) ==
  [e EXCEPT !.radius = e.radius + ECHO_SPEED,
            !.opacity = Max(0, ECHO_OPACITY0 - (now - e.birthTime))]

\* animate, line 1115: the filter.
KeepEcho(e) == e.opacity > ECHO_PRUNE

\* animate, lines 1129-1136: the echo is considered for the elements at all.
EchoAtFace(e) ==
  /\ ~(e.opacity < ECHO_VISIBLE)
  /\ ~(Abs(e.radius - Abs(e.cx - PROBE_FACE_X)) > FACE_WINDOW)
  /\ ~(e.cx < PROBE_FACE_X)

\* animate, lines 1139-1143: |sqrt(dx*dx + dy*dy) - radius| < elementHCalc * 0.8,
\* compared on the squares.
ElementInRing(e, i, h) ==
  LET dx == e.cx - PROBE_FACE_X
      dy == e.cy - ECenterY(h, i)
      d2 == dx * dx + dy * dy
      tol == Tolerance(h)
      lo == e.radius - tol
      hi == e.radius + tol
  IN  /\ tol > 0
      /\ d2 < hi * hi
      /\ (lo < 0 \/ d2 > lo * lo)

Registers(e, i, h) == EchoAtFace(e) /\ ElementInRing(e, i, h)

\* animate, lines 1081-1082 and 1105-1107: the pulse after one frame.
AdvancePulse(p, w) ==
  IF p.active
    THEN [p EXCEPT !.x = p.x + WAVE_SPEED,
                   !.active = ~(p.x + WAVE_SPEED > w + PULSE_MARGIN)]
    ELSE p

\* animate, lines 1123-1125 and 1144: one element's activation after a frame
\* in which n echoes register on it (decay first, then n capped increments).
Activate(a, n) == Min(ACT_CAP, Max(0, a - ACT_DECAY) + ACT_STEP * n)

\* animate, line 1150: the condition of the auto-restart.
ShouldSchedule(p, es, timer) == ~p.active /\ es = << >> /\ timer = 0

\* History of one echo: the element set reg registers in the frame ending at
\* now, in which the echo has the given opacity.  Per element it keeps the
\* number of increments, the time of the first, and the opacity at the latest.
LogFrame(old, reg, now, opacity) ==
  [cnt |-> [i \in Elements |-> IF i \in reg THEN old.cnt[i] + 1 ELSE old.cnt[i]],
   first |-> [i \in Elements |-> IF i \in reg /\ old.cnt[i] = 0 THEN now ELSE old.first[i]],
   dimmest |-> [i \in Elements |-> IF i \in reg THEN opacity ELSE old.dimmest[i]]]

\* A restart that forgets to clear the hit flags.
restartPulse_HitsKept(handle) ==
  /\ handle \in timers
  /\ timers' = timers \ {handle}
  /\ echoes' = << >>
  /\ echoLog' = << >>
  /\ pulse' = FreshPulse
  /\ elementActivations' = ZeroActivations
  /\ restartTimer' = 0
  /\ waited' = IF timers' = {} THEN 0 ELSE waited
  /\ wasSettled' = Settled
  /\ lastOp' = "restart"
  /\ UNCHANGED arrayIds
  /\ UNCHANGED startT
  /\ UNCHANGED << vessels, rbcs, time, initialized, dims, rafPending, listening,
                  disposed, resizes >>


\* A restart that clears the hit flags and leaves the live echoes in place.
restartPulse_EchoesKept(handle) ==
  /\ handle \in timers
  /\ timers' = timers \ {handle}
  /\ rbcs' = [i \in 1..Len(rbcs) |-> [rbcs[i] EXCEPT !.hit = FALSE, !.hitTime = 0]]
  /\ pulse' = FreshPulse
  /\ elementActivations' = ZeroActivations
  /\ restartTimer' = 0
  /\ waited' = IF timers' = {} THEN 0 ELSE waited
  /\ wasSettled' = Settled
  /\ lastOp' = "restart"
  /\ UNCHANGED << arrayIds, startT, echoes, echoLog >>
  /\ UNCHANGED << vessels, time, initialized, dims, rafPending, listening, disposed,
                  resizes >>

\* A restart that resets the cells by building a new array of copies.
restartPulse_NewArray(handle) ==
  /\ handle \in timers
  /\ timers' = timers \ {handle}
  /\ rbcs' = [i \in 1..Len(rbcs) |-> [rbcs[i] EXCEPT !.hit = FALSE, !.hitTime = 0]]
  /\ echoes' = << >>
  /\ echoLog' = << >>
  /\ pulse' = FreshPulse
  /\ elementActivations' = ZeroActivations
  /\ restartTimer' = 0
  /\ waited' = IF timers' = {} THEN 0 ELSE waited
  /\ wasSettled' = Settled
  /\ lastOp' = "restart"
  /\ arrayIds' = [arrayIds EXCEPT !.rbcs = @ + 1]
  /\ UNCHANGED startT
  /\ UNCHANGED << vessels, time, initialized, dims, rafPending, listening, disposed,
                  resizes >>

---------------------------------------------------------------------------
\* One frame: animate, lines 1058-1152 (the drawing that follows reads the
\* state and changes nothing).
animate ==
  /\ rafPending
  /\ time < FrameBudget(dims.w) * DT
  /\ (timers = {} \/ waited < MaxWait)
  /\ IF ~initialized
       THEN UNCHANGED << vessels, rbcs, echoes, pulse, time, restartTimer,
                         elementActivations, timers, echoLog >>
       ELSE
         \E now \in {time + DT}, pulseX \in {pulse.x + WAVE_SPEED} :
         \E moved \in {[i \in 1..Len(rbcs) |-> MoveRBC(rbcs[i])]} :
         \E pos \in {[i \in 1..Len(rbcs) |->
                        getVesselPoint(vessels[moved[i].vesselIdx + 1], moved[i].t)]} :
         \E hits \in {{i \in 1..Len(rbcs) :
                        /\ pulse.active
                        /\ ~moved[i].hit
                        /\ PulseHits(moved[i], pos[i], pulseX, dims.w, dims.h)}} :
         \E hitIdx \in {SelectSeq(Indices(rbcs), LAMBDA i : i \in hits)} :
         \E pushed \in {echoes \o [k \in 1..Len(hitIdx) |->
                          SpawnEcho(moved[hitIdx[k]], pos[hitIdx[k]], now)]} :
         \E pushedLog \in {echoLog \o [k \in 1..Len(hitIdx) |-> NoLog]} :
         \E ticked \in {[k \in 1..Len(pushed) |-> TickEcho(pushed[k], now)]} :
         \E keptIdx \in {SelectSeq(Indices(ticked), LAMBDA k : KeepEcho(ticked[k]))} :
         \E newEchoes \in {[k \in 1..Len(keptIdx) |-> ticked[keptIdx[k]]]} :
         \E reg \in {[k \in 1..Len(newEchoes) |->
                        {i \in Elements : Registers(newEchoes[k], i, dims.h)}]} :
         \E newPulse \in {AdvancePulse(pulse, dims.w)} :
         \E schedule \in {ShouldSchedule(newPulse, newEchoes, restartTimer)} :
           /\ time' = now
           /\ rbcs' = [i \in 1..Len(rbcs) |->
                         IF i \in hits
                           THEN [moved[i] EXCEPT !.hit = TRUE, !.hitTime = now]
                           ELSE moved[i]]
           /\ pulse' = newPulse
           /\ echoes' = newEchoes
           /\ echoLog' =
                [k \in 1..Len(keptIdx) |->
                   LogFrame(pushedLog[keptIdx[k]], reg[k], now, newEchoes[k].opacity)]
           /\ elementActivations' =
                [i \in Elements |->
                   Activate(elementActivations[i],
                            Cardinality({k \in 1..Len(newEchoes) : i \in reg[k]}))]
           /\ restartTimer' = IF schedule THEN NewHandle ELSE restartTimer
           /\ timers' = IF schedule THEN timers \cup {NewHandle} ELSE timers
           /\ UNCHANGED vessels
  /\ waited' = IF timers = {} THEN 0 ELSE waited + 1
  /\ wasSettled' = Settled
  /\ lastOp' = "frame"
  /\ UNCHANGED arrayIds
  /\ UNCHANGED startT
  /\ UNCHANGED << initialized, dims, rafPending, listening, disposed, resizes >>

\* The delayed callback: restartPulse, lines 1046-1056, run by the host for
\* a pending timer.
restartPulse(handle) ==
  /\ handle \in timers
  /\ timers' = timers \ {handle}
  /\ rbcs' = [i \in 1..Len(rbcs) |-> [rbcs[i] EXCEPT !.hit = FALSE, !.hitTime = 0]]
  /\ echoes' = << >>
  /\ echoLog' = << >>
  /\ pulse' = FreshPulse
  /\ elementActivations' = ZeroActivations
  /\ restartTimer' = 0
  /\ waited' = IF timers' = {} THEN 0 ELSE waited
  /\ wasSettled' = Settled
  /\ lastOp' = "restart"
  /\ UNCHANGED arrayIds
  /\ UNCHANGED startT
  /\ UNCHANGED << vessels, time, initialized, dims, rafPending, listening, disposed,
                  resizes >>

\* The resize listener: resize, lines 1023-1041.  The scene is what
\* getBoundingClientRect and Math.random return.
resize(scene) ==
  /\ listening
  /\ resizes < MaxResizes
  /\ resizes' = resizes + 1
  /\ dims' = [w |-> scene.w, h |-> scene.h]
  /\ vessels' = buildVessels(scene.w, scene.h)
  /\ rbcs' = buildRBCs(scene.rnd)
  /\ echoes' = << >>
  /\ echoLog' = << >>
  /\ pulse' = FreshPulse
  /\ time' = 0
  /\ initialized' = TRUE
  /\ wasSettled' = Settled
  /\ lastOp' = "resize"
  /\ arrayIds' = NewArrays(arrayIds)
  /\ startT' = [i \in 1..Len(rbcs') |-> rbcs'[i].t]
  /\ UNCHANGED << restartTimer, elementActivations, timers, rafPending, listening,
                  disposed, waited >>

\* The effect cleanup, lines 1631-1637.
cleanup ==
  /\ ~disposed
  /\ listening' = FALSE
  /\ rafPending' = FALSE
  /\ timers' = IF restartTimer # 0 THEN timers \ {restartTimer} ELSE timers
  /\ disposed' = TRUE
  /\ wasSettled' = Settled
  /\ lastOp' = "cleanup"
  /\ UNCHANGED arrayIds
  /\ UNCHANGED startT
  /\ UNCHANGED << vessels, rbcs, echoes, pulse, time, initialized, dims, restartTimer,
                  elementActivations, waited, resizes, echoLog >>

\* The state when the effect has run resize() and registered the listener
\* (lines 1016-1044); the first call of animate (line 1629) is the first frame.
InitWith(w, h, vs, rs) ==
  /\ dims = [w |-> w, h |-> h]
  /\ vessels = vs
  /\ rbcs = rs
  /\ echoes = << >>
  /\ pulse = FreshPulse
  /\ time = 0
  /\ initialized = TRUE
  /\ restartTimer = 0
  /\ elementActivations = ZeroActivations
  /\ timers = {}
  /\ rafPending = TRUE
  /\ listening = TRUE
  /\ disposed = FALSE
  /\ lastOp = "init"
  /\ arrayIds = [vessels |-> 1, rbcs |-> 1]
  /\ startT = [i \in 1..Len(rs) |-> rs[i].t]
  /\ wasSettled = FALSE
  /\ waited = 0
  /\ resizes = 0
  /\ echoLog = << >>

InitFrom(scenes) ==
  \E scene \in scenes :
    InitWith(scene.w, scene.h, buildVessels(scene.w, scene.h), buildRBCs(scene.rnd))

Init == InitFrom(Scenes)

Frame == animate
TimerFire == \E handle \in timers : restartPulse(handle)
Resize == \E scene \in Scenes : resize(scene)
Dispose == cleanup

Next == Frame \/ TimerFire \/ Resize \/ Dispose

Spec == Init /\ [][Next]_vars

---------------------------------------------------------------------------
(***************************************************************************)
(* The variant src/unnamed/part_001: cells at fixed positions, no receive  *)
(* array, and a delayed restart whose handle is not kept.  It uses the     *)
(* same variables; vessels, restartTimer, elementActivations and echoLog   *)
(* stay at their initial values.  Its echo opacity is in 1/100000.         *)
(***************************************************************************)
P1_WAVE_SPEED == (28 * SC) \div 10
P1_ECHO_SPEED == (22 * SC) \div 10
P1_PROBE_TOP_FRAC == 15
P1_PROBE_BOT_FRAC == 85
P1_TRANSDUCER_X == 56 * SC
P1_TRANSDUCER_WIDTH == 18 * SC
P1_NUM_RBCS == 28
P1_FIELD_INSET == 80 * SC
P1_FIELD_RIGHT_INSET == 30 * SC
P1_MIN_DISTANCE == 26 * SC
P1_MAX_TRIES == 100
P1_ECHO_OPACITY0 == 85000
P1_ECHO_DECAY == 12
P1_ECHO_PRUNE == 1000

\* The n-th value Math.random() returns after the mount (0 .. 9999).
P1_Random(seed, n) == (n * n * 31 + n * 7919 + seed) % 10000

P1_FreshPulse ==
  [x |-> P1_TRANSDUCER_X + P1_TRANSDUCER_WIDTH, opacity |-> 1, active |-> TRUE]

\* initScene, lines 92-115: one cell; n random values are consumed so far.
\* The result is the cell and the number of values consumed with it.
RECURSIVE P1_PlaceCell(_, _, _, _, _, _)
P1_PlaceCell(cells, seed, n, tries, w, h) ==
  LET probeTop == (h * P1_PROBE_TOP_FRAC) \div 100
      probeBot == (h * P1_PROBE_BOT_FRAC) \div 100
      fieldLeft == P1_TRANSDUCER_X + P1_TRANSDUCER_WIDTH + P1_FIELD_INSET
      fieldRight == w - P1_FIELD_RIGHT_INSET
      x == fieldLeft + (P1_Random(seed, n + 1) * (fieldRight - fieldLeft)) \div 10000
      y == probeTop + (P1_Random(seed, n + 2) * (probeBot - probeTop)) \div 10000
      overlaps ==
        \E k \in 1..Len(cells) :
          (cells[k].x - x) * (cells[k].x - x) + (cells[k].y - y) * (cells[k].y - y)
            < P1_MIN_DISTANCE * P1_MIN_DISTANCE
  IN  IF tries + 1 < P1_MAX_TRIES /\ overlaps
        THEN P1_PlaceCell(cells, seed, n + 2, tries + 1, w, h)
        ELSE [cell |-> [x |-> x, y |-> y,
                        rotation |-> (P1_Random(seed, n + 3) * 6283) \div 10,
                        size |-> 5 * SC + (P1_Random(seed, n + 4) * 5 * SC) \div 10000,
                        hit |-> FALSE, hitTime |-> 0],
              used |-> n + 4]

RECURSIVE P1_PlaceCells(_, _, _, _, _)
P1_PlaceCells(cells, seed, n, w, h) ==
  IF Len(cells) = P1_NUM_RBCS THEN cells
  ELSE LET placed == P1_PlaceCell(cells, seed, n, 0, w, h)
       IN  P1_PlaceCells(Append(cells, placed.cell), seed, placed.used, w, h)

\* The canvas rectangles and random seeds of the variant (the canvas is
\* 520 pixels high; 250 and 300 pixels wide).
P1_Scenes == { [w |-> 250 * SC, h |-> 520 * SC, seed |-> 17],
               [w |-> 300 * SC, h |-> 520 * SC, seed |-> 4242] }

P1_TickEcho(e, now) ==
  [e EXCEPT !.radius = e.radius + P1_ECHO_SPEED,
            !.opacity = Max(0, P1_ECHO_OPACITY0 - (now - e.birthTime) * P1_ECHO_DECAY)]

\* animate of part_001, lines 131-181 and 349-375.
P1_animate ==
  /\ rafPending
  /\ time < MaxFrames * DT
  /\ (timers = {} \/ waited < MaxWait)
  /\ \E now \in {time + DT}, pulseX \in {pulse.x + P1_WAVE_SPEED} :
     \E hits \in {{i \in 1..Len(rbcs) :
                    /\ pulse.active
                    /\ ~rbcs[i].hit
                    /\ pulseX >= rbcs[i].x - rbcs[i].size
                    /\ rbcs[i].y >= (dims.h * P1_PROBE_TOP_FRAC) \div 100
                    /\ rbcs[i].y <= (dims.h * P1_PROBE_BOT_FRAC) \div 100}} :
     \E hitIdx \in {SelectSeq(Indices(rbcs), LAMBDA i : i \in hits)} :
     \E pushed \in {echoes \o [k \in 1..Len(hitIdx) |->
                      [cx |-> rbcs[hitIdx[k]].x, cy |-> rbcs[hitIdx[k]].y,
                       radius |-> rbcs[hitIdx[k]].size + SC,
                       opacity |-> P1_ECHO_OPACITY0, birthTime |-> now]]} :
     \E ticked \in {[k \in 1..Len(pushed) |-> P1_TickEcho(pushed[k], now)]} :
     \E newEchoes \in {SelectSeq(ticked, LAMBDA e : e.opacity > P1_ECHO_PRUNE)} :
     \E newPulse \in {IF pulse.active
                        THEN [pulse EXCEPT !.x = pulseX,
                                !.active = ~(pulseX > dims.w + PULSE_MARGIN)]
                        ELSE pulse} :
     \E allDone \in {~newPulse.active /\ newEchoes = << >>} :
       /\ allDone => Cardinality(timers) < MaxPending
       /\ time' = now
       /\ rbcs' = [i \in 1..Len(rbcs) |->
                     IF i \in hits
                       THEN [rbcs[i] EXCEPT !.hit = TRUE, !.hitTime = now]
                       ELSE rbcs[i]]
       /\ pulse' = newPulse
       /\ echoes' = newEchoes
       /\ timers' = IF allDone THEN timers \cup {NewHandle} ELSE timers
  /\ waited' = IF timers = {} THEN 0 ELSE waited + 1
  /\ wasSettled' = Settled
  /\ lastOp' = "frame"
  /\ UNCHANGED arrayIds
  /\ UNCHANGED startT
  /\ UNCHANGED << vessels, initialized, dims, restartTimer, elementActivations,
                  rafPending, listening, disposed, resizes, echoLog >>

\* The callback given to setTimeout, lines 356-372.
P1_timeout(handle) ==
  /\ handle \in timers
  /\ timers' = timers \ {handle}
  /\ rbcs' = [i \in 1..Len(rbcs) |-> [rbcs[i] EXCEPT !.hit = FALSE, !.hitTime = 0]]
  /\ echoes' = << >>
  /\ pulse' = P1_FreshPulse
  /\ waited' = IF timers' = {} THEN 0 ELSE waited
  /\ wasSettled' = Settled
  /\ lastOp' = "restart"
  /\ UNCHANGED arrayIds
  /\ UNCHANGED startT
  /\ UNCHANGED << vessels, time, initialized, dims, restartTimer, elementActivations,
                  rafPending, listening, disposed, resizes, echoLog >>

\* resize and initScene, lines 67-126.
P1_resize(scene) ==
  /\ listening
  /\ resizes < MaxResizes
  /\ resizes' = resizes + 1
  /\ dims' = [w |-> scene.w, h |-> scene.h]
  /\ rbcs' = P1_PlaceCells(<< >>, scene.seed, 0, scene.w, scene.h)
  /\ echoes' = << >>
  /\ pulse' = P1_FreshPulse
  /\ time' = 0
  /\ initialized' = TRUE
  /\ wasSettled' = Settled
  /\ lastOp' = "resize"
  /\ arrayIds' = [arrayIds EXCEPT !.rbcs = @ + 1]
  /\ UNCHANGED startT
  /\ UNCHANGED << vessels, restartTimer, elementActivations, timers, rafPending,
                  listening, disposed, waited, echoLog >>

\* The effect cleanup of part_001, lines 380-383: no timer is cleared.
P1_cleanup ==
  /\ ~disposed
  /\ listening' = FALSE
  /\ rafPending' = FALSE
  /\ disposed' = TRUE
  /\ wasSettled' = Settled
  /\ lastOp' = "cleanup"
  /\ UNCHANGED arrayIds
  /\ UNCHANGED startT
  /\ UNCHANGED << vessels, rbcs, echoes, pulse, time, initialized, dims, restartTimer,
                  elementActivations, timers, waited, resizes, echoLog >>

P1_Init ==
  \E scene \in P1_Scenes :
    /\ dims = [w |-> scene.w, h |-> scene.h]
    /\ vessels = << >>
    /\ rbcs = P1_PlaceCells(<< >>, scene.seed, 0, scene.w, scene.h)
    /\ echoes = << >>
    /\ pulse = P1_FreshPulse
    /\ time = 0
    /\ initialized = TRUE
    /\ restartTimer = 0
    /\ elementActivations = ZeroActivations
    /\ timers = {}
    /\ rafPending = TRUE
    /\ listening = TRUE
    /\ disposed = FALSE
    /\ lastOp = "init"
    /\ arrayIds = [vessels |-> 0, rbcs |-> 1]
    /\ startT = << >>
    /\ wasSettled = FALSE
    /\ waited = 0
    /\ resizes = 0
    /\ echoLog = << >>

P1_Frame == P1_animate
P1_TimerFire == \E handle \in timers : P1_timeout(handle)
P1_Resize == \E scene \in P1_Scenes : P1_resize(scene)
P1_Dispose == P1_cleanup

P1_Next == P1_Frame \/ P1_TimerFire \/ P1_Resize \/ P1_Dispose

SpecP1 == P1_Init /\ [][P1_Next]_vars

---------------------------------------------------------------------------
(***************************************************************************)
(* The component while it stays mounted, with the scheduling the host      *)
(* gives it: a requested frame is eventually delivered and a pending timer *)
(* eventually fires.                                                       *)
(***************************************************************************)
NextLive == Frame \/ TimerFire \/ Resize

SpecLive == Init /\ [][NextLive]_vars /\ WF_vars(Frame) /\ WF_vars(TimerFire)

\* Frames a pulse needs to leave a canvas of width w, and frames an echo lives.
PulseFrames(w) == (w + PULSE_MARGIN - PROBE_FACE_X) \div WAVE_SPEED + 1
EchoFrames == (ECHO_OPACITY0 - ECHO_PRUNE) \div DT + 1
CycleFrames(w) == PulseFrames(w) + EchoFrames

---------------------------------------------------------------------------
\* C1: within one pulse cycle a particle's hit flag goes from false to true
\* at most once: no frame and no disposal clears a set flag, and only the
\* restart (or a rebuild of the scene) puts the flags back to false, all of
\* them at once.
C1_HitOncePerCycle ==
  [][ /\ lastOp' \in {"frame", "cleanup"} =>
           /\ Len(rbcs') = Len(rbcs)
           /\ \A i \in 1..Len(rbcs) : rbcs[i].hit => rbcs'[i].hit
      /\ lastOp' = "restart" => \A i \in 1..Len(rbcs') : ~rbcs'[i].hit ]_vars

\* A particle is hit in a frame later than any first pulse can still be
\* travelling, that is, in a cycle begun by a restart.
C1_Witness ==
  /\ lastOp = "frame"
  /\ time > PulseFrames(dims.w) * DT
  /\ \E i \in 1..Len(rbcs) : rbcs[i].hit /\ rbcs[i].hitTime = time

\* C2: the frame that sets a particle's hit flag appends exactly one echo for
\* it, centred at the particle's position of that frame, born with radius
\* size + 1 (grown once by the end of the frame) and the initial opacity, and
\* stamped with the frame's time; no echo is born in any other way.
C2_OneEchoPerHit ==
  [][ lastOp' = "frame" /\ time' # time =>
        LET newly == SelectSeq(Indices(rbcs), LAMBDA i : ~rbcs[i].hit /\ rbcs'[i].hit)
            born == SelectSeq(echoes', LAMBDA e : e.birthTime = time')
        IN  /\ Len(born) = Len(newly)
            /\ Len(echoes') - Len(born) <= Len(echoes)
            /\ \A k \in 1..Len(echoes') : echoes'[k].birthTime <= time'
            /\ \A k \in 1..Len(newly) :
                 LET r == rbcs'[newly[k]]
                     p == getVesselPoint(vessels[r.vesselIdx + 1], r.t)
                 IN  /\ r.hitTime = time'
                     /\ born[k] = [cx |-> p.x, cy |-> p.y,
                                   radius |-> r.size + SC + ECHO_SPEED,
                                   opacity |-> ECHO_OPACITY0,
                                   birthTime |-> time'] ]_vars

C2_Witness ==
  /\ lastOp = "frame"
  /\ \E k \in 1..Len(echoes) : echoes[k].birthTime = time
  /\ \E k \in 1..Len(echoes) : echoes[k].birthTime < time

\* C3: a restart that runs in SETTLED leaves the pulse active at the probe
\* face, no echo, every hit flag false and every element activation zero.
C3_RestartResets ==
  [][ Settled /\ lastOp' = "restart" =>
        /\ pulse'.active
        /\ pulse'.x = PROBE_FACE_X
        /\ echoes' = << >>
        /\ \A i \in 1..Len(rbcs') : ~rbcs'[i].hit /\ rbcs'[i].hitTime = 0
        /\ \A i \in Elements : elementActivations'[i] = 0 ]_vars

C3_Witness ==
  /\ lastOp = "restart"
  /\ wasSettled
  /\ echoes = << >>
  /\ elementActivations = ZeroActivations

\* C5: while the component stays mounted, SETTLED is always followed by a
\* restart, which leaves the pulse active at the probe face.
C5_SettledLeadsToRestart ==
  Settled ~> (lastOp = "restart" /\ pulse.active /\ pulse.x = PROBE_FACE_X)

C5_Witness ==
  /\ lastOp = "restart"
  /\ wasSettled
  /\ pulse.active
  /\ pulse.x = PROBE_FACE_X

\* C6: from a cycle start (pulse active at the probe face, with enough of the
\* frame budget left for one cycle) the system reaches SETTLED.
C6_CycleSettles ==
  (/\ pulse.active
   /\ pulse.x = PROBE_FACE_X
   /\ time + CycleFrames(dims.w) * DT <= MaxFrames * DT)
    ~> Settled

C6_Witness ==
  /\ Settled
  /\ ~wasSettled
  /\ lastOp = "frame"
  /\ \E i \in 1..Len(rbcs) : rbcs[i].hit

\* C4: once the effect cleanup has run nothing changes the simulation state
\* (particles, echoes, wavefront, activations, time) any more.
C4_NoMutationAfterDispose == [][disposed => UNCHANGED simState]_vars

---------------------------------------------------------------------------
\* Squared distance from the origin of echo e to the centre of element i.
Dist2(e, i, h) ==
  (e.cx - PROBE_FACE_X) * (e.cx - PROBE_FACE_X)
    + (e.cy - ECenterY(h, i)) * (e.cy - ECenterY(h, i))

\* The largest radius an echo can have at the end of its first frame.
MaxFirstRadius == (55 * SC) \div 10 + SC + ECHO_SPEED

\* The radius echo e had at the end of the frame that ended at time t.
RadiusAt(e, t) == e.radius - ECHO_SPEED * ((time - t) \div DT)

\* C7: an echo born in front of the face whose radius has grown past the
\* distance to an element (and past the tolerance window around it) while
\* still visible has incremented that element, off-axis elements included.
C7_EveryElementHears ==
  \A k \in 1..Len(echoes) : \A i \in Elements :
    LET e == echoes[k]
        tol == Tolerance(dims.h)
    IN  (/\ 2 * tol > ECHO_SPEED
         /\ e.cx >= PROBE_FACE_X
         /\ e.opacity >= ECHO_VISIBLE
         /\ Dist2(e, i, dims.h) > (MaxFirstRadius + tol) * (MaxFirstRadius + tol)
         /\ e.radius - tol > 0
         /\ (e.radius - tol) * (e.radius - tol) >= Dist2(e, i, dims.h))
          => echoLog[k].cnt[i] > 0

\* C8: for an element in line with the echo's origin (dy = 0) the echo's
\* radius has reached the distance to the element by the frame of the first
\* increment.
C8_InLineNotBeforeArrival ==
  \A k \in 1..Len(echoes) : \A i \in Elements :
    (/\ echoes[k].cy = ECenterY(dims.h, i)
     /\ echoLog[k].cnt[i] > 0)
      => RadiusAt(echoes[k], echoLog[k].first[i]) >= echoes[k].cx - PROBE_FACE_X

\* C9: of two elements that one echo both increments, the nearer to the
\* echo's origin is first incremented no later than the farther.
C9_NearerNoLater ==
  \A k \in 1..Len(echoes) :
    \A i, j \in {el \in Elements : echoLog[k].cnt[el] > 0} :
      Dist2(echoes[k], i, dims.h) <= Dist2(echoes[k], j, dims.h)
        => echoLog[k].first[i] <= echoLog[k].first[j]

\* One echo has incremented a nearer element in an earlier frame than a
\* farther one.
C9_Witness ==
  \E k \in 1..Len(echoes) : \E i \in Elements : \E j \in Elements :
    /\ echoLog[k].cnt[i] > 0
    /\ echoLog[k].cnt[j] > 0
    /\ Dist2(echoes[k], i, dims.h) < Dist2(echoes[k], j, dims.h)
    /\ echoLog[k].first[i] < echoLog[k].first[j]

\* C10: one echo increments one element in at most one frame.
C10_AtMostOneIncrement ==
  \A k \in 1..Len(echoes) : \A i \in Elements : echoLog[k].cnt[i] <= 1

---------------------------------------------------------------------------
\* The echoes that register on element i in the frame that produced the
\* current state (the arrival test reads the echoes as the frame leaves them).
RegisteringNow(i) == {k \in 1..Len(echoes) : Registers(echoes[k], i, dims.h)}

\* C11: the activation array always has exactly NUM_ELEMENTS entries and
\* every entry lies between 0 and the cap.
C11_ActivationsInRange ==
  /\ DOMAIN elementActivations = Elements
  /\ Cardinality(DOMAIN elementActivations) = NUM_ELEMENTS
  /\ \A i \in Elements :
       elementActivations[i] >= 0 /\ elementActivations[i] <= ACT_CAP

\* An element stands at the cap at the end of a frame in which two echoes
\* registered on it.
C11_Witness ==
  /\ lastOp = "frame"
  /\ \E i \in Elements :
       /\ elementActivations[i] = ACT_CAP
       /\ Cardinality(RegisteringNow(i)) >= 2

\* C12: every frame first lowers each activation by the decay step, floored
\* at 0, then adds one capped step per registering echo; an element on which
\* no echo registers ends the frame at max(0, old - decay).
C12_DecayEveryFrame ==
  [][ lastOp' = "frame" /\ time' # time =>
        \A i \in Elements :
          LET n == Cardinality({k \in 1..Len(echoes') :
                                  Registers(echoes'[k], i, dims'.h)})
          IN  /\ elementActivations'[i]
                   = Min(ACT_CAP, Max(0, elementActivations[i] - ACT_DECAY) + ACT_STEP * n)
              /\ n = 0 =>
                   elementActivations'[i] = Max(0, elementActivations[i] - ACT_DECAY) ]_vars

\* A frame with no live echo at all has left one element's activation
\* positive (it is decaying) and another at the floor.
C12_Witness ==
  /\ lastOp = "frame"
  /\ echoes = << >>
  /\ \E i \in Elements : elementActivations[i] > 0 /\ elementActivations[i] < ACT_CAP
  /\ \E j \in Elements : elementActivations[j] = 0

---------------------------------------------------------------------------
(***************************************************************************)
(* The component left alone (no resize, no unmount) on the canvases of     *)
(* Scenes and on the wide canvas.                                          *)
(***************************************************************************)
InitWide == InitFrom(Scenes \cup {WideScene})

NextWide == Frame \/ TimerFire

SpecWide == InitWide /\ [][NextWide]_vars

\* C13: an echo born behind the probe face never increments an element, and
\* no echo increments an element in a frame in which its opacity is below the
\* visibility threshold.
C13_GatedEchoesSilent ==
  \A k \in 1..Len(echoes) : \A i \in Elements :
    echoLog[k].cnt[i] > 0 =>
      /\ echoes[k].cx >= PROBE_FACE_X
      /\ echoLog[k].dimmest[i] >= ECHO_VISIBLE

\* An echo whose wavefront is crossing the face line and whose ring passes an
\* element is below the visibility threshold, and that element's count has
\* not moved in this frame.
C13_Witness ==
  /\ lastOp = "frame"
  /\ \E k \in 1..Len(echoes) : \E i \in Elements :
       /\ echoes[k].opacity < ECHO_VISIBLE
       /\ echoes[k].cx >= PROBE_FACE_X
       /\ Abs(echoes[k].radius - Abs(echoes[k].cx - PROBE_FACE_X)) <= FACE_WINDOW
       /\ ElementInRing(echoes[k], i, dims.h)
       /\ echoLog[k].cnt[i] > 0
       /\ echoLog[k].dimmest[i] > echoes[k].opacity

---------------------------------------------------------------------------
\* C14: no particle lying at or behind the probe face is hit, so every echo
\* has its origin in front of the face.
C14_NoEchoBehindFace ==
  \A k \in 1..Len(echoes) : echoes[k].cx > PROBE_FACE_X

\* Position pos lies in the canvas of size w x h and in the beam.
InFieldAndBeam(pos, w, h) ==
  /\ pos.x >= 0 /\ pos.x <= w
  /\ pos.y >= 0 /\ pos.y <= h
  /\ pos.y >= ProbeTop(h) /\ pos.y <= ProbeBot(h)

\* C15: a particle is hit only at a post-advance position inside the field
\* and the beam that the wavefront has reached; so the origin of every live
\* echo lies inside the field and the beam.
C15_HitsInsideFieldAndBeam ==
  [][ /\ lastOp' = "frame" =>
           \A i \in 1..Len(rbcs) :
             (~rbcs[i].hit /\ rbcs'[i].hit) =>
               LET pos == getVesselPoint(vessels[rbcs'[i].vesselIdx + 1], rbcs'[i].t)
               IN  /\ InFieldAndBeam(pos, dims.w, dims.h)
                   /\ pulse'.x >= pos.x - rbcs'[i].size
      /\ \A k \in 1..Len(echoes') :
           InFieldAndBeam([x |-> echoes'[k].cx, y |-> echoes'[k].cy], dims'.w, dims'.h)
    ]_vars

\* In a frame with the wavefront active, cells have been hit in this cycle
\* while another cell, which the wavefront has also reached, stays unhit
\* because it is outside the field or the beam.
C15_Witness ==
  /\ lastOp = "frame"
  /\ pulse.active
  /\ \E i \in 1..Len(rbcs) : rbcs[i].hit /\ rbcs[i].hitTime > 0
  /\ \E j \in 1..Len(rbcs) :
       LET pos == getVesselPoint(vessels[rbcs[j].vesselIdx + 1], rbcs[j].t)
       IN  /\ ~rbcs[j].hit
           /\ pulse.x >= pos.x - rbcs[j].size
           /\ ~InFieldAndBeam(pos, dims.w, dims.h)

---------------------------------------------------------------------------
\* C16: no live echo has a radius beyond the diagonal of the field.
C16_RadiusWithinDiagonal ==
  \A k \in 1..Len(echoes) :
    echoes[k].radius * echoes[k].radius <= dims.w * dims.w + dims.h * dims.h

\* Echoes e and f are the same echo (same origin, same birth).
SameEcho(e, f) == e.cx = f.cx /\ e.cy = f.cy /\ e.birthTime = f.birthTime

\* C17: from one frame to the next an echo's opacity never increases, and the
\* live set only ever gains echoes spawned in the current frame: an echo that
\* has left the set does not come back.
C17_FadingAndGone ==
  [][ /\ lastOp' = "frame" /\ time' # time =>
           \A k \in 1..Len(echoes') :
             \/ echoes'[k].birthTime = time'
             \/ \E j \in 1..Len(echoes) :
                  /\ SameEcho(echoes[j], echoes'[k])
                  /\ echoes'[k].opacity <= echoes[j].opacity
      /\ lastOp' # "frame" => (echoes' = << >> \/ echoes' = echoes) ]_vars

\* Some echoes of this cycle have been pruned while others are still live
\* and have faded.
C17_Witness ==
  /\ lastOp = "frame"
  /\ echoes # << >>
  /\ Cardinality({i \in 1..Len(rbcs) : rbcs[i].hit}) > Len(echoes)
  /\ \A k \in 1..Len(echoes) : echoes[k].opacity < ECHO_OPACITY0

\* C18: no live echo is older than EchoFrames - 1 frames, so every echo is
\* gone EchoFrames (557) frames after the frame that spawned it.
C18_EchoLifetime ==
  /\ EchoFrames = 557
  /\ \A k \in 1..Len(echoes) :
       time - echoes[k].birthTime <= (EchoFrames - 1) * DT

\* An echo in its last frame (556 frames after its birth).
C18_Witness ==
  \E k \in 1..Len(echoes) :
    time - echoes[k].birthTime = (EchoFrames - 1) * DT

\* C19: after every frame an active pulse has x <= w + 20, and a frame that
\* advances the pulse deactivates it exactly when the advanced x exceeds
\* w + 20.
C19_PulseStopsPastEdge ==
  [][ lastOp' = "frame" /\ time' # time =>
        /\ pulse'.active => pulse'.x <= dims'.w + PULSE_MARGIN
        /\ pulse.active =>
             /\ pulse'.x = pulse.x + WAVE_SPEED
             /\ pulse'.active = ~(pulse'.x > dims.w + PULSE_MARGIN) ]_vars

\* The frame that has just deactivated the pulse.
C19_Witness ==
  /\ lastOp = "frame"
  /\ ~pulse.active
  /\ pulse.x > dims.w + PULSE_MARGIN
  /\ pulse.x - WAVE_SPEED <= dims.w + PULSE_MARGIN

\* Every action of the component, started on any of the canvases.
InitAll == InitFrom(Scenes \cup {WideScene, LateScene})

SpecAll == InitAll /\ [][Next]_vars

\* C20: a step taken with the pulse inactive leaves the pulse's x alone, sets
\* no hit flag and spawns no echo; the pulse becomes active again only in
\* restartPulse or resize.
C20_InactivePulseIsInert ==
  [][ ~pulse.active =>
        \/ lastOp' \in {"restart", "resize"}
        \/ /\ pulse' = pulse
           /\ Len(rbcs') = Len(rbcs)
           /\ \A i \in 1..Len(rbcs) : rbcs'[i].hit = rbcs[i].hit
           /\ \A k \in 1..Len(echoes') :
                \E j \in 1..Len(echoes) : SameEcho(echoes[j], echoes'[k]) ]_vars

\* After a frame the pulse is inactive, echoes are live, and an unhit cell
\* sits where an active pulse at the same x would hit it: the frame ran with
\* the pulse inactive and left the cell alone.
C20_Witness ==
  /\ lastOp = "frame"
  /\ ~pulse.active
  /\ echoes # << >>
  /\ \E i \in 1..Len(rbcs) :
       /\ ~rbcs[i].hit
       /\ PulseHits(rbcs[i], getVesselPoint(vessels[rbcs[i].vesselIdx + 1], rbcs[i].t),
                    pulse.x, dims.w, dims.h)

---------------------------------------------------------------------------
\* The position of cell i of the cell list rs.
PosOf(rs, i) == getVesselPoint(vessels[rs[i].vesselIdx + 1], rs[i].t)

\* C21: a frame runs its steps in the fixed order.  The cells move first;
\* the collision test reads the moved t and the advanced pulse x; the
\* arrival test reads the radii after this frame's growth and only the echoes
\* that survived this frame's filter; the restart condition reads the pulse
\* and the echo list the frame leaves behind.
C21_FrameOrder ==
  [][ lastOp' = "frame" /\ time' # time =>
        /\ \A i \in 1..Len(rbcs) :
             rbcs'[i].t = Wrap(rbcs[i].t + vessels[rbcs[i].vesselIdx + 1].flowSpeed)
        /\ pulse.active =>
             \A i \in 1..Len(rbcs) :
               ~rbcs[i].hit =>
                 (rbcs'[i].hit <=>
                    /\ InFieldAndBeam(PosOf(rbcs', i), dims.w, dims.h)
                    /\ pulse.x + WAVE_SPEED >= PosOf(rbcs', i).x - rbcs'[i].size)
        /\ \A k \in 1..Len(echoes') : KeepEcho(echoes'[k])
        /\ \A i \in Elements :
             elementActivations'[i] =
               Activate(elementActivations[i],
                        Cardinality({k \in 1..Len(echoes') :
                                       Registers(echoes'[k], i, dims.h)}))
        /\ (restartTimer' # restartTimer) =
             (~pulse'.active /\ echoes' = << >> /\ restartTimer = 0) ]_vars

\* A cell hit in this frame that the pulse reaches only with this frame's
\* advance, while an echo registers on an element with this frame's radius
\* and would not with the radius it had before the growth.
C21_Witness ==
  /\ lastOp = "frame"
  /\ \E i \in 1..Len(rbcs) :
       /\ rbcs[i].hit
       /\ rbcs[i].hitTime = time
       /\ pulse.x - WAVE_SPEED < PosOf(rbcs, i).x - rbcs[i].size
  /\ \E k \in 1..Len(echoes) : \E el \in Elements :
       /\ Registers(echoes[k], el, dims.h)
       /\ ~Registers([echoes[k] EXCEPT !.radius = @ - ECHO_SPEED], el, dims.h)

\* C22: immediately after a restart the simulation time is 0 again.
C22_RestartResetsTime == [][lastOp' = "restart" => time' = 0]_vars

\* C23: a restart keeps the vessel array and the cell array (the same array
\* objects, the same length), every vessel, and every cell's fields other
\* than hit and hitTime; of the simulation state it changes only the hit
\* flags and hit times, the echoes, the pulse, the activations and the stored
\* timer handle.
C23_RestartKeepsGeometry ==
  [][ lastOp' = "restart" =>
        /\ arrayIds' = arrayIds
        /\ vessels' = vessels
        /\ Len(rbcs') = Len(rbcs)
        /\ \A i \in 1..Len(rbcs) :
             [rbcs'[i] EXCEPT !.hit = rbcs[i].hit, !.hitTime = rbcs[i].hitTime] = rbcs[i]
        /\ UNCHANGED << time, dims, initialized >> ]_vars

\* A restart that has just run in SETTLED, on cells that have moved since
\* the scene was built and still have the sizes they were built with.
C23_Witness ==
  /\ lastOp = "restart"
  /\ wasSettled
  /\ time > 0
  /\ \E scene \in Scenes :
       /\ dims = [w |-> scene.w, h |-> scene.h]
       /\ \A i \in 1..Len(rbcs) :
            /\ rbcs[i].t # buildRBCs(scene.rnd)[i].t
            /\ rbcs[i].size = buildRBCs(scene.rnd)[i].size
            /\ ~rbcs[i].hit

\* C24: every cell's arc parameter t satisfies 0 <= t < 1.
C24_ArcParameterBelowOne ==
  \A i \in 1..Len(rbcs) : 0 <= rbcs[i].t /\ rbcs[i].t < TS

---------------------------------------------------------------------------
\* The component run on the one-vessel scenes and on the two canvases of
\* Scenes, with frames and the restart timer.
InitFlow ==
  \/ \E pts \in FlowPaths, flow \in FlowRates, t0 \in FlowStarts :
       InitWith(FlowDims.w, FlowDims.h, << FlowVessel(pts, flow) >>,
                << FlowCell(t0, 5 * SC) >>)
  \/ InitFrom(Scenes)

NextFlow == Frame \/ TimerFire

SpecFlow == InitFlow /\ [][NextFlow]_vars

Between(v, a, b) == Min(a, b) <= v /\ v <= Max(a, b)

\* C26: for every cell with t < 1 on a path of at least two control points,
\* getVesselPoint uses a segment index in 0 .. count - 2 and returns a point
\* whose coordinates lie between those of the segment's two control points;
\* at t = 0 it returns the first control point.
C26_PointOnSegment ==
  \A i \in 1..Len(rbcs) :
    LET v == vessels[rbcs[i].vesselIdx + 1]
        idx == SegmentIndex(v, rbcs[i].t)
        p == getVesselPoint(v, rbcs[i].t)
    IN  (Len(v.points) >= 2 /\ 0 <= rbcs[i].t /\ rbcs[i].t < TS) =>
          /\ idx \in 0..(Len(v.points) - 2)
          /\ idx = (rbcs[i].t * (Len(v.points) - 1)) \div TS
          /\ Between(p.x, v.points[idx + 1].x, v.points[idx + 2].x)
          /\ Between(p.y, v.points[idx + 1].y, v.points[idx + 2].y)
          /\ (rbcs[i].t = 0 => p = v.points[1])

\* A cell resting at t = 0 of the three-point path has been hit, and its
\* echo starts at the first control point.
C26_Witness ==
  /\ lastOp = "frame"
  /\ vessels = << FlowVessel(PathBent, 0) >>
  /\ rbcs[1].t = 0
  /\ rbcs[1].hit
  /\ \E k \in 1..Len(echoes) : echoes[k].cx = PathBent[1].x /\ echoes[k].cy = PathBent[1].y

\* The scenario: one horizontal two-point path of length 100 at y = 50, one
\* cell of size 5 resting at its middle (t = 0.5, no flow), on either path.
ScenarioA ==
  /\ Len(vessels) = 1
  /\ vessels[1].points \in {PathAtOrigin, PathAtFace}
  /\ vessels[1].flowSpeed = 0
  /\ Len(rbcs) = 1
  /\ rbcs[1].t = TS \div 2
  /\ rbcs[1].size = 5 * SC

---------------------------------------------------------------------------
\* The echoes of the list es that a frame ending at now prunes.
Faded(es, now) ==
  {k \in 1..Len(es) : ECHO_OPACITY0 - (now - es[k].birthTime) <= ECHO_PRUNE}

\* C28: a frame keeps the echoes it does not prune in their order, at the
\* front of the list, each with the origin and birth time it had and with
\* only radius and opacity updated; no other step changes an echo.
C28_EchoOriginFixed ==
  [][ /\ (lastOp' = "frame" /\ time' # time) =>
           \E d \in {Cardinality(Faded(echoes, time'))} :
             /\ Len(echoes') >= Len(echoes) - d
             /\ \A j \in 1..(Len(echoes) - d) :
                  /\ echoes[j + d].opacity - (time' - time) > ECHO_PRUNE
                  /\ echoes'[j] =
                       [echoes[j + d] EXCEPT
                          !.radius = @ + ECHO_SPEED,
                          !.opacity = ECHO_OPACITY0 - (time' - echoes[j + d].birthTime)]
      /\ lastOp' # "frame" => (echoes' = echoes \/ echoes' = << >>) ]_vars

\* An older echo is live at the place where its cell was hit, while that
\* cell has moved on.
C28_Witness ==
  /\ lastOp = "frame"
  /\ \E k \in 1..Len(echoes) : \E i \in 1..Len(rbcs) :
       /\ echoes[k].birthTime < time
       /\ rbcs[i].hit
       /\ rbcs[i].hitTime = echoes[k].birthTime
       /\ \A j \in 1..Len(rbcs) :
            (rbcs[j].hit /\ rbcs[j].hitTime = echoes[k].birthTime) =>
               (PosOf(rbcs, j).x # echoes[k].cx \/ PosOf(rbcs, j).y # echoes[k].cy)

---------------------------------------------------------------------------
\* C29: restartPulse runs only when the simulation is SETTLED.
C29_RestartOnlyWhenSettled == [][lastOp' = "restart" => Settled]_vars

\* C30: at most one delayed restart is pending at any time.
C30_OnePendingTimer == Cardinality(timers) <= 1

---------------------------------------------------------------------------
\* Cell i of the list rs is where a pulse front at pulseX takes it: inside
\* the field and the beam, with the front at or past its near edge.
Eligible(rs, i, pulseX) ==
  /\ InFieldAndBeam(PosOf(rs, i), dims.w, dims.h)
  /\ pulseX >= PosOf(rs, i).x - rs[i].size

\* C31: after a frame that began with the pulse active, every cell that is
\* eligible at its new position for the advanced pulse x has its hit flag
\* set.
C31_NoEligibleCellSkipped ==
  [][ (lastOp' = "frame" /\ time' # time /\ pulse.active) =>
        \A i \in 1..Len(rbcs') :
          (/\ InFieldAndBeam(PosOf(rbcs', i), dims.w, dims.h)
           /\ pulse'.x >= PosOf(rbcs', i).x - rbcs'[i].size) => rbcs'[i].hit ]_vars

\* A frame with the pulse still active in which one eligible cell is hit
\* now, another eligible cell was hit in an earlier frame, and a third cell
\* is not eligible and not hit.
C31_Witness ==
  /\ lastOp = "frame"
  /\ pulse.active
  /\ \E i, j, k \in 1..Len(rbcs) :
       /\ rbcs[i].hit /\ rbcs[i].hitTime = time /\ Eligible(rbcs, i, pulse.x)
       /\ rbcs[j].hit /\ rbcs[j].hitTime < time /\ Eligible(rbcs, j, pulse.x)
       /\ ~rbcs[k].hit /\ ~Eligible(rbcs, k, pulse.x)

\* C32: a cell's hit flag is set only in the frame in which the pulse front
\* reaches its near edge: the front is then less than one frame's pulse
\* advance plus the cell's own displacement past that edge.
C32_HitOnlyWhenJustReached ==
  [][ (lastOp' = "frame" /\ time' # time) =>
        \A i \in 1..Len(rbcs) :
          (~rbcs[i].hit /\ rbcs'[i].hit) =>
             /\ pulse'.x >= PosOf(rbcs', i).x - rbcs'[i].size
             /\ pulse'.x < (PosOf(rbcs', i).x - rbcs'[i].size) + WAVE_SPEED
                             + Abs(PosOf(rbcs', i).x - PosOf(rbcs, i).x) ]_vars

\* The cells of the current cycle whose hit produced an echo born at time b
\* at the origin (x, y).
Sources(e) ==
  {i \in 1..Len(rbcs) : rbcs[i].hit /\ rbcs[i].hitTime = e.birthTime}

\* C33: a live echo born k frames before the current one (k = 0 for the
\* frame that spawned it) has radius (size + 1) + ECHO_SPEED * (k + 1), with
\* size the size of a cell hit at the echo's birth, and opacity
\* max(0, 0.9 - 0.1 * (time - birthTime)); from one frame to the next its
\* radius grows by ECHO_SPEED > 0.
C33_EchoRadiusAndOpacity ==
  /\ ECHO_SPEED > 0
  /\ \A k \in 1..Len(echoes) :
       LET e == echoes[k]
           age == (time - e.birthTime) \div DT
       IN  /\ e.birthTime <= time
           /\ (time - e.birthTime) % DT = 0
           /\ e.opacity = Max(0, ECHO_OPACITY0 - (time - e.birthTime))
           /\ \E i \in Sources(e) :
                e.radius = (rbcs[i].size + SC) + ECHO_SPEED * (age + 1)

\* An echo in the frame that spawned it, already grown by one step, beside
\* an echo that is older.
C33_Witness ==
  /\ lastOp = "frame"
  /\ \E k, m \in 1..Len(echoes) :
       /\ echoes[k].birthTime = time
       /\ \E i \in Sources(echoes[k]) : echoes[k].radius = rbcs[i].size + SC + ECHO_SPEED
       /\ echoes[m].birthTime < time
       /\ echoes[m].opacity < ECHO_OPACITY0

\* The cells whose hit flag is set.
HitCells == {i \in 1..Len(rbcs) : rbcs[i].hit}

\* C34: the number of live echoes never exceeds the number of cells whose
\* hit flag is set, and hence never the number of cells.
C34_EchoesBoundedByHits ==
  /\ Len(echoes) <= Cardinality(HitCells)
  /\ Len(echoes) <= Len(rbcs)

\* Echoes alive in a frame after a resize rebuilt the cells: some cells
\* are hit, some of their echoes have been pruned, others are still live.
C34_Witness ==
  /\ lastOp = "frame"
  /\ resizes > 0
  /\ Len(echoes) > 0
  /\ Len(echoes) < Cardinality(HitCells)
  /\ Cardinality(HitCells) < Len(rbcs)

\* C35: the step of a resize ends in a fresh running state: the pulse
\* active at the probe face, no echo, time 0, no cell hit, every element
\* activation 0 and no restart timer pending.
C35_ResizeGivesFreshState ==
  [][ lastOp' = "resize" =>
        /\ pulse' = FreshPulse
        /\ echoes' = << >>
        /\ time' = 0
        /\ \A i \in 1..Len(rbcs') : ~rbcs'[i].hit
        /\ elementActivations' = ZeroActivations
        /\ timers' = {}
        /\ restartTimer' = 0 ]_vars


----------------------------------------------------------------------------
\* The component from its construction: the initial value of stateRef, lines
\* 858-870, before the effect has run.  No frame is requested and no listener
\* is registered yet.
InitBare ==
  /\ dims = [w |-> 0, h |-> 0]
  /\ vessels = << >>
  /\ rbcs = << >>
  /\ echoes = << >>
  /\ pulse = [FreshPulse EXCEPT !.x = 0]
  /\ time = 0
  /\ initialized = FALSE
  /\ restartTimer = 0
  /\ elementActivations = ZeroActivations
  /\ timers = {}
  /\ rafPending = FALSE
  /\ listening = FALSE
  /\ disposed = FALSE
  /\ lastOp = "construct"
  /\ arrayIds = [vessels |-> 0, rbcs |-> 0]
  /\ startT = << >>
  /\ wasSettled = FALSE
  /\ waited = 0
  /\ resizes = 0
  /\ echoLog = << >>

\* The effect body, lines 1016-1629: the first resize(), the registration of
\* the resize listener, and the first call of animate, left pending as the
\* next frame.
Mount(scene) ==
  /\ ~initialized
  /\ ~listening
  /\ ~disposed
  /\ dims' = [w |-> scene.w, h |-> scene.h]
  /\ vessels' = buildVessels(scene.w, scene.h)
  /\ rbcs' = buildRBCs(scene.rnd)
  /\ echoes' = << >>
  /\ pulse' = FreshPulse
  /\ time' = 0
  /\ initialized' = TRUE
  /\ listening' = TRUE
  /\ rafPending' = TRUE
  /\ arrayIds' = [vessels |-> 1, rbcs |-> 1]
  /\ startT' = [i \in 1..Len(rbcs') |-> rbcs'[i].t]
  /\ wasSettled' = FALSE
  /\ echoLog' = << >>
  /\ lastOp' = "mount"
  /\ UNCHANGED << restartTimer, elementActivations, timers, disposed, waited, resizes >>

MountEffect == \E scene \in Scenes : Mount(scene)

\* The cleanup exists once the effect has run.
Unmount == initialized /\ Dispose

NextMount == MountEffect \/ Frame \/ TimerFire \/ Resize \/ Unmount

SpecMount == InitBare /\ [][NextMount]_vars

\* Every cell lies on an existing vessel whose path has at least 2 points.
LookupsDefined ==
  \A i \in 1..Len(rbcs) :
    /\ rbcs[i].vesselIdx + 1 \in 1..Len(vessels)
    /\ Len(vessels[rbcs[i].vesselIdx + 1].points) >= 2

\* C36: a frame taken before initialization leaves the simulation state as
\* it is, and in every state, initialized or not, each cell's vesselIdx
\* names an existing vessel with at least 2 points, so that no frame looks
\* up a point on a missing vessel or on a path that has no segment.
C36_LookupsDefined ==
  /\ [] LookupsDefined
  /\ [][ (lastOp' = "frame" /\ ~initialized) =>
           UNCHANGED << simState, restartTimer, timers >> ]_vars

\* A frame has moved the cells along their vessels after the mount.
C36_Witness ==
  /\ lastOp = "frame"
  /\ initialized
  /\ Len(rbcs) > 0
  /\ \E i \in 1..Len(rbcs) : rbcs[i].t # startT[i]
  /\ \A i \in 1..Len(rbcs) : rbcs[i].vesselIdx \in 0..4

----------------------------------------------------------------------------
\* The transmit window around the probe face, lines 1463-1464 and 1530.
TX_AHEAD == 30 * SC
TX_BEHIND == 5 * SC

\* animate, lines 1463-1464: the per-element transmit flag.
transmitting ==
  pulse.active /\ pulse.x < PROBE_FACE_X + TX_AHEAD /\ pulse.x >= PROBE_FACE_X - TX_BEHIND

\* animate, line 1530: the transmit flag of the emitting face.
isTransmitting == pulse.active /\ pulse.x < PROBE_FACE_X + TX_AHEAD

\* C37: either transmit flag is set only while the pulse is active with x
\* in [faceX - 5, faceX + 30); the first frame after a fire or a rebuild
\* sets it, and a frame never sets it again once it is clear, so within a
\* cycle it holds for an initial run of frames and then stays clear until
\* the next restart or resize.
C37_TransmitWindow ==
  /\ [] ((transmitting \/ isTransmitting) =>
           /\ pulse.active
           /\ pulse.x >= PROBE_FACE_X - 5 * SC
           /\ pulse.x < PROBE_FACE_X + 30 * SC)
  /\ [] (transmitting <=> isTransmitting)
  /\ [][ lastOp' = "frame" =>
           /\ (pulse = FreshPulse => (pulse'.active /\ pulse'.x < PROBE_FACE_X + 30 * SC))
           /\ (~(pulse.active /\ pulse.x < PROBE_FACE_X + 30 * SC) =>
                 ~(pulse'.active /\ pulse'.x < PROBE_FACE_X + 30 * SC)) ]_vars

\* A frame that clears the flag, in a cycle started by a restart: the front
\* is still active and has just left the window.
C37_Witness ==
  /\ lastOp = "frame"
  /\ pulse.active
  /\ ~transmitting
  /\ pulse.x - WAVE_SPEED < PROBE_FACE_X + TX_AHEAD
  /\ time > ((TX_AHEAD \div WAVE_SPEED) + 1) * DT
=============================================================================
